---- MODULE Spec2Model ----
(***************************************************************************)
(* Indicator scoring engine of the ICE dashboard (src/data_utils.py):     *)
(* DataProcessor._get_latest_values_by_indicator, ._calculate_weighted_   *)
(* average_by_group and .calculate_scores, over pandas DataFrames.        *)
(*                                                                         *)
(* A DataFrame is a record [cols, rows]: cols is the set of column names, *)
(* rows the sequence of rows in index order.  A cell is <<>> when missing  *)
(* (NaN/None/NaT) and <<x>> when present; the cells of a column that is   *)
(* not in cols are all missing.  Valor cells are integers in units of     *)
(* 1/ValueScale, Peso cells are integers, Fecha cells are day numbers.    *)
(* A score is an exact fraction [num, den] in lowest terms.               *)
(***************************************************************************)
EXTENDS Integers, Sequences, FiniteSets, TLC

\* Largest number of rows of an input batch.
MaxRows == 2
\* Values are decimal numbers with one fractional digit: a Valor cell <<v>>
\* stands for the number v / ValueScale, and the clip bound 1 is ValueScale.
ValueScale == 10

NaN == <<>>
notna(c) == c # NaN
isna(c) == c = NaN
val(c) == c[1]

AllColumns == {"Codigo", "Fecha", "Valor", "Peso", "Componente", "Categoria"}

Row(c, f, v, p, comp, cat) ==
    [Codigo |-> c, Fecha |-> f, Valor |-> v, Peso |-> p,
     Componente |-> comp, Categoria |-> cat, Valor_Normalizado |-> NaN]

EmptyFrame == [cols |-> {}, rows |-> <<>>]

\* pandas DataFrame.empty: no rows or no columns
empty(frame) == frame.rows = <<>> \/ frame.cols = {}

\* the order pandas sorts string keys in
StrOrder == <<"A", "B", "X", "Y", "Z">>
Rank(s) == CHOOSE i \in DOMAIN StrOrder : StrOrder[i] = s

Max(S) == CHOOSE x \in S : \A y \in S : y <= x
Min(S) == CHOOSE x \in S : \A y \in S : x <= y

\* the element of a set with one element; The({e(v) : v \in {x}}) is e of
\* the value of x, which is computed once
The(S) == CHOOSE x \in S : TRUE

RECURSIVE SumTo(_, _)
SumTo(f, n) == IF n = 0 THEN 0 ELSE f[n] + SumTo(f, n - 1)

Abs(n) == IF n < 0 THEN -n ELSE n

RECURSIVE GCD(_, _)
GCD(a, b) == IF b = 0 THEN a ELSE GCD(b, a % b)

\* the number n/d (d > 0) in lowest terms
Frac(n, d) == LET g == GCD(Abs(n), d) IN [num |-> n \div g, den |-> d \div g]
Zero == [num |-> 0, den |-> 1]

(***************************************************************************)
(* _get_latest_values_by_indicator                                         *)
(***************************************************************************)

\* df.dropna(subset=['Codigo', 'Fecha', 'Valor']) keeps exactly these rows
HasCritical(r) == notna(r.Codigo) /\ notna(r.Fecha) /\ notna(r.Valor)

dropna(rows) == SelectSeq(rows, HasCritical)

\* sort key ['Codigo', 'Fecha'], ascending
RowLE_codigo_only(r1, r2) == Rank(val(r1.Codigo)) <= Rank(val(r2.Codigo))

RowLE(r1, r2) ==
    \/ Rank(val(r1.Codigo)) < Rank(val(r2.Codigo))
    \/ /\ r1.Codigo = r2.Codigo
       /\ val(r1.Fecha) <= val(r2.Fecha)

RowLT(r1, r2) == ~RowLE(r2, r1)

\* position after which the next row of the input goes into the sorted
\* prefix s: the multi-key sort is a lexsort, which is stable, so the row
\* goes behind every row whose key is not greater
InsertPos_ties_first(s, x) == Cardinality({i \in DOMAIN s : RowLT(s[i], x)})

InsertPos(s, x) == Cardinality({i \in DOMAIN s : RowLE(s[i], x)})

RECURSIVE sort_values(_)
sort_values(rows) ==
    IF rows = <<>> THEN <<>>
    ELSE LET s == sort_values(SubSeq(rows, 1, Len(rows) - 1))
             x == rows[Len(rows)]
             k == InsertPos(s, x)
         IN SubSeq(s, 1, k) \o <<x>> \o SubSeq(s, k + 1, Len(s))

\* GroupBy.last() of one column of one group: the last entry that is not
\* missing, missing when there is none
last(cells) ==
    LET nn == {i \in DOMAIN cells : notna(cells[i])}
    IN IF nn = {} THEN NaN ELSE cells[Max(nn)]

\* the group keys of a groupby, sorted; rows with a missing key are in no group
GroupKeys(rows, by) ==
    SelectSeq(StrOrder, LAMBDA k : \E i \in DOMAIN rows : rows[i][by] = <<k>>)

Group(rows, by, k) == SelectSeq(rows, LAMBDA r : r[by] = <<k>>)

\* a mistaken selection: every record of each group but the last one
groupby_all_but_last(rows, by) ==
    LET keys == GroupKeys(rows, by)
        Rest(k) == SubSeq(Group(rows, by, k), 1, Len(Group(rows, by, k)) - 1)
        RECURSIVE Cat(_)
        Cat(n) == IF n = 0 THEN <<>> ELSE Cat(n - 1) \o Rest(keys[n])
    IN Cat(Len(keys))

\* .groupby(by, as_index=False).last().reset_index(drop=True)
groupby_last(rows, by) ==
    LET keys == GroupKeys(rows, by)
    IN [n \in 1..Len(keys) |->
          LET g == Group(rows, by, keys[n])
          IN [c \in DOMAIN g[1] |-> last([i \in 1..Len(g) |-> g[i][c]])]]

\* what the resolver returns when no row is usable
Fallback_empty(df, df_clean) == [frame |-> df_clean, same |-> FALSE]

Fallback(df, df_clean) == [frame |-> df, same |-> TRUE]

\* result: the frame returned and whether it is the argument object itself
get_latest_values_by_indicator(df) ==
    IF empty(df) THEN [frame |-> df, same |-> TRUE]
    ELSE IF ~({"Codigo", "Fecha", "Valor"} \subseteq df.cols)
    THEN [frame |-> df, same |-> TRUE]
    ELSE LET df_clean == [cols |-> df.cols, rows |-> dropna(df.rows)]
         IN IF empty(df_clean) THEN Fallback(df, df_clean)
            ELSE [frame |-> [cols |-> df.cols,
                             rows |-> groupby_last(sort_values(df_clean.rows), "Codigo")],
                  same |-> FALSE]

(***************************************************************************)
(* _calculate_weighted_average_by_group                                    *)
(***************************************************************************)

\* Series.clip(0, 1), in units of 1/ValueScale
Clip_no_upper(c) ==
    IF isna(c) THEN NaN
    ELSE IF val(c) < 0 THEN <<0>>
    ELSE c

Clip_no_lower(c) ==
    IF isna(c) THEN NaN
    ELSE IF val(c) > ValueScale THEN <<ValueScale>>
    ELSE c

Clip(c) ==
    IF isna(c) THEN NaN
    ELSE IF val(c) < 0 THEN <<0>>
    ELSE IF val(c) > ValueScale THEN <<ValueScale>>
    ELSE c

weighted_avg_unweighted(valores, pesos) ==
    LET mask == {i \in DOMAIN valores : notna(valores[i]) /\ notna(pesos[i])}
        n == Len(valores)
    IN IF mask = {} THEN Zero
       ELSE Frac(SumTo([i \in 1..n |-> IF i \in mask THEN val(valores[i]) ELSE 0], n),
                 ValueScale * Cardinality(mask))

weighted_avg(valores, pesos) ==
    LET mask == {i \in DOMAIN valores : notna(valores[i]) /\ notna(pesos[i])}
        n == Len(valores)
        peso_total == SumTo([i \in 1..n |-> IF i \in mask THEN val(pesos[i]) ELSE 0], n)
    IN IF mask = {} THEN Zero
       ELSE IF peso_total > 0
       THEN Frac(SumTo([i \in 1..n |-> IF i \in mask
                                        THEN val(valores[i]) * val(pesos[i]) ELSE 0], n),
                 ValueScale * peso_total)
       ELSE Frac(SumTo([i \in 1..n |-> IF i \in mask THEN val(valores[i]) ELSE 0], n),
                 ValueScale * Cardinality(mask))

\* required_cols of _calculate_weighted_average_by_group
GroupRequiredColumns_peso_only == {"Peso"}

GroupRequiredColumns == {"Valor_Normalizado", "Peso"}

\* the rows of the score table: one row [key, Puntaje_Ponderado] per group,
\* in key order
calculate_weighted_average_by_group(df, group_column) ==
    IF empty(df) THEN <<>>
    ELSE IF group_column \notin df.cols THEN <<>>
    ELSE IF ~(GroupRequiredColumns \subseteq df.cols) THEN <<>>
    ELSE LET keys == GroupKeys(df.rows, group_column)
         IN [n \in 1..Len(keys) |->
               LET g == Group(df.rows, group_column, keys[n])
               IN [key |-> keys[n],
                   Puntaje_Ponderado |->
                       weighted_avg([i \in 1..Len(g) |-> g[i].Valor_Normalizado],
                                    [i \in 1..Len(g) |-> g[i].Peso])]]

\* an early exit that returns pd.DataFrame() without the column labels
weighted_average_table_unshaped(df, group_column) ==
    LET rows == calculate_weighted_average_by_group(df, group_column)
    IN [cols |-> IF rows = <<>> THEN {} ELSE {group_column, "Puntaje_Ponderado"},
        rows |-> rows]

\* the DataFrame _calculate_weighted_average_by_group returns: every return
\* statement labels it [group_column, 'Puntaje_Ponderado']
weighted_average_table(df, group_column) ==
    [cols |-> {group_column, "Puntaje_Ponderado"},
     rows |-> calculate_weighted_average_by_group(df, group_column)]

(***************************************************************************)
(* calculate_scores                                                        *)
(***************************************************************************)

\* a normalisation that also writes a rescaled value back into Valor
add_normalized_rescaling_valor(frame) ==
    [cols |-> frame.cols \cup {"Valor_Normalizado"},
     rows |-> [i \in DOMAIN frame.rows |->
                 LET v == frame.rows[i].Valor
                     half == IF isna(v) THEN NaN ELSE <<val(v) \div 2>>
                 IN [frame.rows[i] EXCEPT !.Valor = half,
                                          !.Valor_Normalizado = Clip(half)]]]

\* df_filtrado['Valor_Normalizado'] = df_filtrado['Valor'].clip(0, 1)
add_normalized(frame) ==
    [cols |-> frame.cols \cup {"Valor_Normalizado"},
     rows |-> [i \in DOMAIN frame.rows |->
                 [frame.rows[i] EXCEPT !.Valor_Normalizado = Clip(frame.rows[i].Valor)]]]

\* "Calcular puntaje general"
general_score(rows) ==
    LET n == Len(rows)
        peso_total == SumTo([i \in 1..n |-> IF notna(rows[i].Peso)
                                            THEN val(rows[i].Peso) ELSE 0], n)
        both == {i \in 1..n : notna(rows[i].Valor_Normalizado) /\ notna(rows[i].Peso)}
        vals == {i \in 1..n : notna(rows[i].Valor_Normalizado)}
    IN IF peso_total > 0
       THEN Frac(SumTo([i \in 1..n |-> IF i \in both
                           THEN val(rows[i].Valor_Normalizado) * val(rows[i].Peso)
                           ELSE 0], n),
                 ValueScale * peso_total)
       ELSE IF vals = {} THEN Zero
       ELSE Frac(SumTo([i \in 1..n |-> IF i \in vals
                           THEN val(rows[i].Valor_Normalizado) ELSE 0], n),
                 ValueScale * Cardinality(vals))

Degraded_one(df, df_filtrado, path) ==
    [componente |-> <<>>, categoria |-> <<>>, general |-> [num |-> 1, den |-> 1],
     df_filtrado |-> df_filtrado, path |-> path, df |-> df]

Degraded(df, df_filtrado, path) ==
    [componente |-> <<>>, categoria |-> <<>>, general |-> Zero,
     df_filtrado |-> df_filtrado, path |-> path, df |-> df]

\* required_columns of calculate_scores
ScoreRequiredColumns_valor_only == {"Valor"}

ScoreRequiredColumns == {"Valor", "Peso", "Componente", "Categoria"}

\* df_filtrado['Valor_Normalizado'].isna().all()
AllNormalizedMissing_never(frame) == FALSE

AllNormalizedMissing(frame) ==
    \A i \in DOMAIN frame.rows : isna(frame.rows[i].Valor_Normalizado)

\* which of the three guarded computations raise an exception
NoFaults == [componente |-> FALSE, categoria |-> FALSE, general |-> FALSE]

\* try: _calculate_weighted_average_by_group(df_filtrado, 'Componente')
\* except: empty table
component_scores(df_filtrado, faults) ==
    IF faults.componente THEN <<>>
    ELSE calculate_weighted_average_by_group(df_filtrado, "Componente")

\* one try block around both aggregations
category_scores_shared_try(df_filtrado, faults) ==
    IF faults.componente \/ faults.categoria THEN <<>>
    ELSE calculate_weighted_average_by_group(df_filtrado, "Categoria")

\* try: _calculate_weighted_average_by_group(df_filtrado, 'Categoria')
\* except: empty table
category_scores(df_filtrado, faults) ==
    IF faults.categoria THEN <<>>
    ELSE calculate_weighted_average_by_group(df_filtrado, "Categoria")

\* try: "Calcular puntaje general"  except: 0.0
overall_score(df_filtrado, faults) ==
    IF faults.general THEN Zero ELSE general_score(df_filtrado.rows)

\* calculate_scores when the guarded computations named by faults raise.
\* result: the three outputs, the snapshot the scores were computed from,
\* the return statement taken and the caller's batch as the call leaves it
calculate_scores_raising(df, faults) ==
    IF empty(df) THEN Degraded(df, EmptyFrame, "empty")
    ELSE LET latest == get_latest_values_by_indicator(df)
         IN IF Len(latest.frame.rows) = 0
            THEN Degraded(df, latest.frame, "no_latest")
            ELSE IF ~(ScoreRequiredColumns \subseteq latest.frame.cols)
            THEN Degraded(df, latest.frame, "missing_columns")
            ELSE LET df_filtrado == add_normalized(latest.frame)
                     df_after == IF latest.same THEN df_filtrado ELSE df
                 IN IF AllNormalizedMissing(df_filtrado)
                    THEN Degraded(df_after, df_filtrado, "all_nan")
                    ELSE [componente |-> component_scores(df_filtrado, faults),
                          categoria |-> category_scores(df_filtrado, faults),
                          general |-> overall_score(df_filtrado, faults),
                          df_filtrado |-> df_filtrado,
                          path |-> "scored",
                          df |-> df_after]

calculate_scores(df) == calculate_scores_raising(df, NoFaults)

(***************************************************************************)
(* DataLoader: cells of a raw batch.  A date text is modelled by its       *)
(* parts: "a<sep>b<sep>y", or "y<sep>a<sep>b" when the year comes first;   *)
(* a parsed date (Timestamp) is the number yyyymmdd.                       *)
(***************************************************************************)

DateText(sep, yfirst, a, b, y) ==
    [sep |-> sep, yfirst |-> yfirst, a |-> a, b |-> b, y |-> y]

\* a text no date format matches, such as "not-a-date"
NotADate == [sep |-> "", yfirst |-> FALSE, a |-> 0, b |-> 0, y |-> 0]

Timestamp(y, m, d) == y * 10000 + m * 100 + d

DaysIn(y, m) ==
    IF m = 2 THEN (IF y % 4 = 0 /\ (y % 100 # 0 \/ y % 400 = 0) THEN 29 ELSE 28)
    ELSE IF m \in {4, 6, 9, 11} THEN 30 ELSE 31

ValidDate(y, m, d) == m \in 1..12 /\ d >= 1 /\ d <= DaysIn(y, m)

\* the candidate formats of _process_dates, in the order they are tried
date_formats ==
    <<[sep |-> "/", order |-> "dmy"],      \* %d/%m/%Y
      [sep |-> "-", order |-> "dmy"],      \* %d-%m-%Y
      [sep |-> "-", order |-> "ymd"],      \* %Y-%m-%d
      [sep |-> "/", order |-> "ymd"],      \* %Y/%m/%d
      [sep |-> "/", order |-> "mdy"],      \* %m/%d/%Y
      [sep |-> ".", order |-> "dmy"]>>     \* %d.%m.%Y

\* one text parsed under one format: the date, or missing when the text
\* does not match the format or names no calendar day
strptime(text, formato) ==
    IF text.sep # formato.sep \/ text.yfirst # (formato.order = "ymd")
    THEN NaN
    ELSE LET m == IF formato.order = "dmy" THEN text.b ELSE text.a
             d == IF formato.order = "dmy" THEN text.a ELSE text.b
         IN IF ValidDate(text.y, m, d) THEN <<Timestamp(text.y, m, d)>> ELSE NaN

\* pd.to_datetime(column, format=formato, errors='coerce')
to_datetime_format(column, formato) ==
    [i \in DOMAIN column |->
        IF isna(column[i]) THEN NaN ELSE strptime(val(column[i]), formato)]

\* the format under which a text reads as a date when no format is given:
\* year-first texts are year-month-day, the others day-month or month-day as
\* dayfirst prefers, the other way round when the preferred reading names no
\* calendar day; <<>> when the text is no date
guess_format(text, dayfirst) ==
    LET first == IF dayfirst THEN "dmy" ELSE "mdy"
        second == IF dayfirst THEN "mdy" ELSE "dmy"
        try(order) == [sep |-> text.sep, order |-> order]
    IN IF text.sep \notin {"/", "-", "."} THEN <<>>
       ELSE IF text.yfirst
            THEN (IF notna(strptime(text, try("ymd"))) THEN <<try("ymd")>> ELSE <<>>)
       ELSE IF notna(strptime(text, try(first))) THEN <<try(first)>>
       ELSE IF notna(strptime(text, try(second))) THEN <<try(second)>>
       ELSE <<>>

\* a text parsed on its own, without a format
parse_text(text, dayfirst) ==
    LET g == guess_format(text, dayfirst)
    IN IF g = <<>> THEN NaN ELSE strptime(text, g[1])

\* pd.to_datetime(column, errors='coerce', dayfirst=dayfirst).  Before pandas
\* 2.0 every entry is parsed on its own; from 2.0 on (pandas2) the format is
\* inferred from the first entry that is present and applied to all of them,
\* and entries are parsed on their own only when no format can be inferred.
to_datetime(column, dayfirst, pandas2) ==
    LET present == {i \in DOMAIN column : notna(column[i])}
        inferred == IF present = {} THEN <<>>
                    ELSE guess_format(val(column[Min(present)]), dayfirst)
    IN IF pandas2 /\ inferred # <<>>
       THEN to_datetime_format(column, inferred[1])
       ELSE [i \in DOMAIN column |->
                IF isna(column[i]) THEN NaN
                ELSE parse_text(val(column[i]), dayfirst)]

(***************************************************************************)
(* DataLoader._process_dates                                               *)
(***************************************************************************)

Column(df, name) == [i \in DOMAIN df.rows |-> df.rows[i][name]]

SetColumn(df, name, column) ==
    [cols |-> df.cols \cup {name},
     rows |-> [i \in DOMAIN df.rows |-> [df.rows[i] EXCEPT ![name] = column[i]]]]

\* df.dropna(subset=subset, inplace=True)
dropna_subset(df, subset) ==
    [df EXCEPT !.rows = SelectSeq(df.rows,
                            LAMBDA r : \A c \in subset : notna(r[c]))]

NotnaCount(column) == Cardinality({i \in DOMAIN column : notna(column[i])})

\* porcentaje_validas >= 50, with porcentaje_validas =
\* (notna().sum() / len()) * 100, which is NaN for a column without entries
ReachesHalf_strictly(fechas_convertidas) ==
    /\ Len(fechas_convertidas) > 0
    /\ NotnaCount(fechas_convertidas) * 100 > 50 * Len(fechas_convertidas)
ReachesHalf(fechas_convertidas) ==
    /\ Len(fechas_convertidas) > 0
    /\ NotnaCount(fechas_convertidas) * 100 >= 50 * Len(fechas_convertidas)

\* fechas_convertidas before the loop: None
NoDates == [is_none |-> TRUE, fechas |-> <<>>]

\* the loop over date_formats from the k-th format on; to_datetime with
\* errors='coerce' raises no ValueError, so no format is skipped
RECURSIVE try_formats(_, _, _)
try_formats(column, k, fechas_convertidas) ==
    IF k > Len(date_formats) THEN fechas_convertidas
    ELSE The({IF ReachesHalf(parsed)
              THEN [is_none |-> FALSE, fechas |-> parsed]
              ELSE try_formats(column, k + 1,
                               [is_none |-> FALSE, fechas |-> parsed]) :
                 parsed \in {to_datetime_format(column, date_formats[k])}})

\* fechas_invalidas > 5
TooManyInvalid_from_five(fechas_invalidas) == fechas_invalidas >= 5
TooManyInvalid(fechas_invalidas) == fechas_invalidas > 5

\* _process_dates(df): the batch as the call leaves it, and what it reports.
\* Without a Fecha column df['Fecha'] raises KeyError, which the outer
\* except reports.
process_dates(df, pandas2) ==
    IF "Fecha" \notin df.cols
    THEN [df |-> df, mensajes |-> {"Error al procesar fechas"}]
    ELSE The({The({
             LET parsed == SetColumn(df, "Fecha", fechas_convertidas)
                 fechas_invalidas ==
                     Len(fechas_convertidas) - NotnaCount(fechas_convertidas)
             IN IF TooManyInvalid(fechas_invalidas)
                THEN [df |-> dropna_subset(parsed, {"Fecha"}),
                      mensajes |-> {"Excluidas filas con fechas invalidas"}]
                ELSE [df |-> parsed, mensajes |-> {}] :
             fechas_convertidas \in
                 {IF looped.is_none
                  THEN to_datetime(column, TRUE, pandas2)
                  ELSE looped.fechas}}) :
         column \in {Column(df, "Fecha")},
         looped \in {try_formats(Column(df, "Fecha"), 1, NoDates)}})

(***************************************************************************)
(* DataLoader._process_values.  A Valor cell of a raw batch holds a number *)
(* (an exact fraction) or a text (its sequence of characters); the column  *)
(* has dtype object when it holds a text.                                  *)
(***************************************************************************)

Number(n, d) == [kind |-> "float", number |-> Frac(n, d), text |-> <<>>]
Text(chars) == [kind |-> "str", number |-> Zero, text |-> chars]

Digits == <<"0", "1", "2", "3", "4", "5", "6", "7", "8", "9">>
IsDigit(ch) == \E i \in DOMAIN Digits : Digits[i] = ch
DigitValue(ch) == (CHOOSE i \in DOMAIN Digits : Digits[i] = ch) - 1

RECURSIVE Pow10(_)
Pow10(k) == IF k = 0 THEN 1 ELSE 10 * Pow10(k - 1)

\* the number a sequence of digits writes
RECURSIVE IntOf(_)
IntOf(digits) ==
    IF digits = <<>> THEN 0
    ELSE 10 * IntOf(SubSeq(digits, 1, Len(digits) - 1))
         + DigitValue(digits[Len(digits)])

\* the digits that write a natural number
RECURSIVE DigitsOf(_)
DigitsOf(n) ==
    IF n < 10 THEN <<Digits[n + 1]>>
    ELSE Append(DigitsOf(n \div 10), Digits[(n % 10) + 1])

\* the number of decimals the fraction with denominator den needs, from k
\* on (den has no prime factor but 2 and 5)
RECURSIVE DecimalsFrom(_, _)
DecimalsFrom(den, k) ==
    IF Pow10(k) % den = 0 THEN k ELSE DecimalsFrom(den, k + 1)

\* str(x) of a non-negative float with a finite decimal expansion: its
\* integer part, a point and its decimals, at least one ("1.0", "0.25")
str_of(number) ==
    LET k == Max({1, DecimalsFrom(number.den, 0)})
        scaled == (number.num * Pow10(k)) \div number.den
        whole == DigitsOf(scaled \div Pow10(k))
        decimals == DigitsOf(scaled % Pow10(k))
        zeros == [i \in 1..(k - Len(decimals)) |-> "0"]
    IN whole \o <<".">> \o zeros \o decimals

\* Series.astype(str) on one cell: a missing cell reads "nan"
astype_str(cell) ==
    IF isna(cell) THEN <<"n", "a", "n">>
    ELSE IF val(cell).kind = "float" THEN str_of(val(cell).number)
    ELSE val(cell).text

\* Series.str.replace(',', '.') on one text
str_replace(chars) ==
    [i \in DOMAIN chars |-> IF chars[i] = "," THEN "." ELSE chars[i]]

\* pd.to_numeric(errors='coerce') on one text: digits with at most one
\* decimal point and at least one digit are a number, anything else is
\* missing
to_numeric_cell(chars) ==
    LET points == {i \in DOMAIN chars : chars[i] = "."}
        digits == SelectSeq(chars, IsDigit)
    IN IF /\ \A i \in DOMAIN chars : IsDigit(chars[i]) \/ chars[i] = "."
          /\ Cardinality(points) <= 1
          /\ digits # <<>>
       THEN LET decimals == IF points = {} THEN 0
                            ELSE Len(chars) - (CHOOSE i \in points : TRUE)
                n == Frac(IntOf(digits), Pow10(decimals))
            IN <<Number(n.num, n.den)>>
       ELSE NaN

\* pd.to_numeric(column, errors='coerce'): cell by cell
to_numeric_whole_column(column) ==
    IF \E i \in DOMAIN column : isna(to_numeric_cell(column[i]))
    THEN [i \in DOMAIN column |-> NaN]
    ELSE [i \in DOMAIN column |-> to_numeric_cell(column[i])]
to_numeric(column) == [i \in DOMAIN column |-> to_numeric_cell(column[i])]

\* df['Valor'].dtype == 'object'
IsObject(column) ==
    \E i \in DOMAIN column : notna(column[i]) /\ val(column[i]).kind = "str"

\* _process_values(df); without a Valor column df['Valor'] raises KeyError,
\* which the except reports
process_values(df) ==
    IF "Valor" \notin df.cols
    THEN [df |-> df, mensajes |-> {"Error al procesar valores"}]
    ELSE IF IsObject(Column(df, "Valor"))
    THEN The({[df |-> SetColumn(df, "Valor", numbers), mensajes |-> {}] :
                 numbers \in {to_numeric([i \in DOMAIN df.rows |->
                                 str_replace(astype_str(df.rows[i].Valor))])}})
    ELSE [df |-> df, mensajes |-> {}]

(***************************************************************************)
(* DataLoader._process_dataframe, ._verify_and_clean_dataframe, .load_data *)
(***************************************************************************)

\* config.COLUMN_MAPPING: original column name -> canonical name
COLUMN_MAPPING == <<[original |-> "COD", nuevo |-> "Codigo"]>>

\* config.DEFAULT_META
DEFAULT_META == 1

\* df.rename(columns={original: nuevo}, inplace=True)
rename(df, original, nuevo) ==
    [cols |-> (df.cols \ {original}) \cup {nuevo},
     rows |-> [i \in DOMAIN df.rows |->
                 [df.rows[i] EXCEPT ![nuevo] = df.rows[i][original],
                                    ![original] = NaN]]]

\* the renaming loop of _process_dataframe from the k-th pair on
RECURSIVE rename_columns(_, _)
rename_columns(df, k) ==
    IF k > Len(COLUMN_MAPPING) THEN df
    ELSE rename_columns(
             IF COLUMN_MAPPING[k].original \in df.cols
             THEN rename(df, COLUMN_MAPPING[k].original, COLUMN_MAPPING[k].nuevo)
             ELSE df,
             k + 1)

\* df[name] = value
SetAll(df, name, value) ==
    SetColumn(df, name, [i \in DOMAIN df.rows |-> value])

\* _add_default_columns(df)
add_default_columns(df) ==
    LET with_meta == IF "Meta" \notin df.cols
                     THEN SetAll(df, "Meta", <<DEFAULT_META>>) ELSE df
    IN IF "Peso" \notin with_meta.cols
       THEN SetAll(with_meta, "Peso", <<1>>) ELSE with_meta

\* _process_dataframe(df): renaming, dates, values, default columns; the
\* batch is changed in place and nothing is returned
process_dataframe(df, pandas2) ==
    The({The({[df |-> add_default_columns(valued.df),
               mensajes |-> dated.mensajes \cup valued.mensajes] :
                 valued \in {process_values(dated.df)}}) :
            dated \in {process_dates(rename_columns(df, 1), pandas2)}})

required_columns ==
    {"Codigo", "Fecha", "Valor", "Componente", "Categoria", "Indicador"}

\* subset of the dropna of _verify_and_clean_dataframe
CleanSubset_without_value == {"Codigo", "Fecha"}
CleanSubset == {"Codigo", "Fecha", "Valor"}

\* _verify_and_clean_dataframe(df): its return value, the batch as it
\* leaves it and what it reports
verify_and_clean_dataframe(df) ==
    IF ~(required_columns \subseteq df.cols)
    THEN [ok |-> FALSE, df |-> df, mensajes |-> {"Faltan columnas"}]
    ELSE The({IF empty(cleaned)
              THEN [ok |-> FALSE, df |-> cleaned,
                    mensajes |-> {"No hay datos validos"}]
              ELSE [ok |-> TRUE, df |-> cleaned, mensajes |-> {}] :
                 cleaned \in {dropna_subset(df, CleanSubset)}})

\* the value None
None == <<>>

\* processing and verification of the batch a source delivered: what the
\* loading function returns, the batch object afterwards, the reports
process_and_verify_returning_batch(df, pandas2) ==
    The({The({[returned |-> <<verified.df>>,
               df |-> verified.df,
               mensajes |-> processed.mensajes \cup verified.mensajes] :
                 verified \in {verify_and_clean_dataframe(processed.df)}}) :
            processed \in {process_dataframe(df, pandas2)}})
process_and_verify(df, pandas2) ==
    The({The({[returned |-> IF verified.ok THEN <<verified.df>> ELSE None,
               df |-> verified.df,
               mensajes |-> processed.mensajes \cup verified.mensajes] :
                 verified \in {verify_and_clean_dataframe(processed.df)}}) :
            processed \in {process_dataframe(df, pandas2)}})

\* _load_from_google_sheets(): sheets is what sheets_manager.load_data()
\* does: it raises, returns None or returns a batch
load_from_google_sheets(sheets, pandas2) ==
    IF sheets.outcome = "raises"
    THEN [returned |-> None, mensajes |-> {"Error al cargar desde Google Sheets"}]
    ELSE IF sheets.outcome = "none" \/ empty(sheets.frame)
    THEN [returned |-> None, mensajes |-> {}]
    ELSE The({[returned |-> r.returned, mensajes |-> r.mensajes] :
                 r \in {process_and_verify(sheets.frame, pandas2)}})

\* _load_from_csv(): csv is what pd.read_csv does: it raises or returns the
\* batch of the file, which self.df then holds
load_from_csv(csv, self_df, pandas2) ==
    IF csv.outcome = "raises"
    THEN [returned |-> None, self_df |-> self_df,
          mensajes |-> {"Error al cargar CSV"}]
    ELSE The({[returned |-> r.returned, self_df |-> <<r.df>>,
               mensajes |-> r.mensajes] :
                 r \in {process_and_verify(csv.frame, pandas2)}})

\* load_data(): its return value, self.df afterwards, whether the CSV file
\* was read, and the reports
load_data_csv_first(use_google_sheets, sheets, csv, pandas2) ==
    The({IF from_csv.returned # None
         THEN [returned |-> from_csv.returned, self_df |-> from_csv.returned,
               csv_read |-> TRUE, mensajes |-> from_csv.mensajes]
         ELSE [returned |-> from_sheets.returned,
               self_df |-> from_sheets.returned, csv_read |-> TRUE,
               mensajes |-> from_csv.mensajes \cup from_sheets.mensajes] :
            from_csv \in {load_from_csv(csv, None, pandas2)},
            from_sheets \in {IF use_google_sheets
                             THEN load_from_google_sheets(sheets, pandas2)
                             ELSE [returned |-> None, mensajes |-> {}]}})
load_data(use_google_sheets, sheets, csv, pandas2) ==
    The({IF from_sheets.returned # None
         THEN [returned |-> from_sheets.returned,
               self_df |-> from_sheets.returned,
               csv_read |-> FALSE, mensajes |-> from_sheets.mensajes]
         ELSE The({[returned |-> from_csv.returned,
                    self_df |-> IF from_csv.returned # None
                                THEN from_csv.returned ELSE from_csv.self_df,
                    csv_read |-> TRUE,
                    mensajes |->
                        (from_sheets.mensajes \cup from_csv.mensajes)
                        \cup (IF use_google_sheets
                              THEN {"Google Sheets no disponible"} ELSE {})
                        \cup (IF from_csv.returned = None
                              THEN {"No se pudieron cargar datos"} ELSE {})] :
                      from_csv \in {load_from_csv(csv, None, pandas2)}}) :
            from_sheets \in {IF use_google_sheets
                             THEN load_from_google_sheets(sheets, pandas2)
                             ELSE [returned |-> None, mensajes |-> {}]}})

(***************************************************************************)
(* DataEditor._update_record_csv                                           *)
(***************************************************************************)

\* DataFrame.to_csv on one cell of a datetime column: "yyyy-mm-dd", and
\* nothing for NaT, which reads back as missing
to_csv_date(cell) ==
    IF isna(cell) THEN NaN
    ELSE <<DateText("-", TRUE, (val(cell) \div 100) % 100, val(cell) % 100,
                    val(cell) \div 10000)>>

\* the column that holds the code: 'COD' before 'Codigo'
codigo_col(df_actual) ==
    IF "COD" \in df_actual.cols THEN <<"COD">>
    ELSE IF "Codigo" \in df_actual.cols THEN <<"Codigo">>
    ELSE <<>>

\* _update_record_csv(df, codigo, fecha, nuevo_valor, csv_path): its return
\* value, the stored file afterwards and whether the file was written.  Every
\* exception (no file, no Fecha column) is caught and False returned.
update_record_csv(csv, codigo, fecha, nuevo_valor, pandas2) ==
    IF csv.outcome = "raises" \/ "Fecha" \notin csv.frame.cols
    THEN [returned |-> FALSE, csv |-> csv, rewritten |-> FALSE]
    ELSE The({
        IF codigo_col(df_actual) = <<>>
        THEN [returned |-> FALSE, csv |-> csv, rewritten |-> FALSE]
        ELSE The({
            IF idx # {}
            THEN [returned |-> TRUE,
                  csv |-> [outcome |-> "frame",
                           frame |->
                               [cols |-> df_actual.cols \cup {"Valor"},
                                rows |-> [i \in DOMAIN df_actual.rows |->
                                    [df_actual.rows[i] EXCEPT
                                        !.Valor = IF i \in idx
                                                  THEN nuevo_valor ELSE @,
                                        !.Fecha = to_csv_date(@)]]]],
                  rewritten |-> TRUE]
            ELSE [returned |-> FALSE, csv |-> csv, rewritten |-> FALSE] :
            idx \in {{i \in DOMAIN df_actual.rows :
                        /\ df_actual.rows[i][codigo_col(df_actual)[1]] = <<codigo>>
                        /\ df_actual.rows[i].Fecha = <<fecha>>}}}) :
        df_actual \in {The({SetColumn(csv.frame, "Fecha", fechas) :
                              fechas \in {to_datetime(Column(csv.frame, "Fecha"),
                                                      FALSE, pandas2)}})}})

(***************************************************************************)
(* State machine: a caller holds a batch df and invokes the engine on it.  *)
(***************************************************************************)
VARIABLES
    df,                   \* the caller's batch object
    pc,                   \* where the caller is: "start", then the call made
    df_latest,            \* result of _get_latest_values_by_indicator(df)
    same_object,          \* df_latest is the object df itself
    df_latest2,           \* result of resolving df_latest once more
    df_filtrado,          \* snapshot used by calculate_scores
    path,                 \* return statement calculate_scores took
    puntajes_componente,
    puntajes_categoria,
    puntaje_general,
    again,                \* outputs of a second calculate_scores(df)
    faults,               \* guarded computations that raised in the call
    group_column,         \* argument of _calculate_weighted_average_by_group
    result,               \* table _calculate_weighted_average_by_group returned
    valor,                \* a Valor cell
    normalizado,          \* valor.clip(0, 1)
    renormalizado,        \* normalizado.clip(0, 1)
    raw,                  \* the batch as its source delivered it
    pandas2,              \* to_datetime infers one format for a whole column
    mensajes,             \* what the call reported through st.error/st.warning
    use_google_sheets,    \* DataLoader.use_google_sheets
    sheets,               \* what sheets_manager.load_data() does
    csv,                  \* what pd.read_csv(csv_path) does: the stored file
    returned,             \* return value of load_data
    self_df,              \* DataLoader.df
    csv_read,             \* load_data read the CSV file
    request,              \* arguments of _update_record_csv
    updated,              \* return value of _update_record_csv
    rewritten             \* _update_record_csv wrote the CSV file

vars == <<df, pc, df_latest, same_object, df_latest2, df_filtrado, path,
          puntajes_componente, puntajes_categoria, puntaje_general,
          again, faults, group_column, result,
          valor, normalizado, renormalizado,
          raw, pandas2, mensajes, use_google_sheets, sheets, csv, returned,
          self_df, csv_read, request, updated, rewritten>>

loader_vars == <<raw, pandas2, mensajes, use_google_sheets, sheets, csv,
                 returned, self_df, csv_read, request, updated, rewritten>>

resolver_vars == <<df_latest, same_object, df_latest2>>
score_vars == <<df_filtrado, path, puntajes_componente, puntajes_categoria,
                puntaje_general, again, faults>>
group_vars == <<group_column, result>>
clip_vars == <<valor, normalizado, renormalizado>>

CategoriaOf(c) == IF c = "A" THEN <<"Y">> ELSE <<"Z">>

\* rows of the batches the resolver is exercised on: every usable row over
\* two codes, two dates, two values and a present or missing weight, and the
\* rows that miss exactly one of code, date and value
ResolveRows ==
    {r \in {Row(c, f, v, p, <<"X">>, <<"Y">>) :
               c \in {NaN, <<"A">>, <<"B">>}, f \in {NaN, <<1>>, <<2>>},
               v \in {NaN, <<4>>, <<8>>}, p \in {NaN, <<1>>}} :
        \/ HasCritical(r)
        \/ /\ Cardinality({c \in {"Codigo", "Fecha", "Valor"} : isna(r[c])}) = 1
           /\ notna(r.Peso)}

\* rows of the batches the scores are computed on; the category follows
\* the indicator code.  Usable rows carry a value inside or above [0,1] and
\* a missing, negative, zero or positive weight; unusable rows miss the
\* date, the value or both; three more rows miss the code, the component
\* or the category
ScoreRows ==
    {Row(<<c>>, <<1>>, v, p, <<"X">>, CategoriaOf(c)) :
        c \in {"A", "B"}, v \in {<<4>>, <<12>>},
        p \in {NaN, <<-1>>, <<0>>, <<1>>, <<2>>}}
    \cup
    {Row(<<c>>, NaN, v, p, <<"X">>, CategoriaOf(c)) :
        c \in {"A", "B"}, v \in {NaN, <<4>>}, p \in {NaN, <<2>>}}
    \cup
    {Row(<<c>>, <<1>>, NaN, <<2>>, <<"X">>, CategoriaOf(c)) : c \in {"A", "B"}}
    \cup
    {Row(NaN, <<1>>, <<4>>, <<1>>, <<"X">>, <<"Y">>),
     Row(<<"A">>, <<1>>, <<4>>, <<1>>, NaN, <<"Y">>),
     Row(<<"A">>, <<1>>, <<4>>, <<1>>, <<"X">>, NaN)}

ColumnSets ==
    {AllColumns} \cup {AllColumns \ {c} : c \in AllColumns}

\* the cells of an absent column are missing
RowsFor(RowSet, cs) ==
    {r \in RowSet : \A c \in AllColumns \ cs : isna(r[c])}

\* df is a batch of at most MaxRows rows of RowSet
IsBatch(RowSet) ==
    \E cs \in ColumnSets : \E n \in 0..MaxRows :
        \E rs \in [1..n -> RowsFor(RowSet, cs)] :
            df = [cols |-> cs, rows |-> rs]

\* rows of the batches the aggregation is called on directly; the component
\* may be missing
GroupRows ==
    {Row(<<c>>, <<1>>, v, p, comp, CategoriaOf(c)) :
        c \in {"A", "B"}, v \in {<<4>>, <<12>>},
        p \in {NaN, <<1>>, <<2>>}, comp \in {NaN, <<"X">>}}

NormalizedColumns == AllColumns \cup {"Valor_Normalizado"}

\* with and without the normalized column, without weights, without the
\* component column
GroupColumnSets ==
    {NormalizedColumns, AllColumns,
     NormalizedColumns \ {"Peso"}, NormalizedColumns \ {"Componente"}}

\* the row with its normalized value, reduced to the columns cs
Project(r, cs) ==
    [c \in DOMAIN r |->
        IF c \notin cs THEN NaN
        ELSE IF c = "Valor_Normalizado" THEN Clip(r.Valor)
        ELSE r[c]]

\* rows that score without any degraded path: both codes, value inside or
\* above [0,1], weight 1 or 2
FaultRows ==
    {Row(<<c>>, <<1>>, v, p, <<"X">>, CategoriaOf(c)) :
        c \in {"A", "B"}, v \in {<<4>>, <<12>>}, p \in {<<1>>, <<2>>}}

\* the three observations of the scoring scenario: indicator A on days 1
\* and 3, indicator B on day 2
Scenario ==
    <<Row(<<"A">>, <<1>>, <<4>>, <<1>>, <<"X">>, <<"Y">>),
      Row(<<"A">>, <<3>>, <<8>>, <<1>>, <<"X">>, <<"Y">>),
      Row(<<"B">>, <<2>>, <<12>>, <<2>>, <<"X">>, <<"Z">>)>>

\* the scenario with other values and weights in its three rows
ScenarioBatches ==
    {[cols |-> AllColumns,
      rows |-> [i \in DOMAIN Scenario |->
                  [Scenario[i] EXCEPT !.Valor = vs[i], !.Peso = ps[i]]]] :
        vs \in [DOMAIN Scenario -> {<<4>>, <<8>>, <<12>>}],
        ps \in [DOMAIN Scenario -> {<<1>>, <<2>>}]}

\* values below, inside and above [0,1]
ClipInputs ==
    {NaN} \cup {<<v>> : v \in (0 - 2 * ValueScale)..(3 * ValueScale)}

NoOutputs == [componente |-> <<>>, categoria |-> <<>>, general |-> Zero]

(***************************************************************************)
(* State machine of the loader: a source delivers a raw batch, which the   *)
(* loader processes in place; an editor rewrites the stored CSV file.      *)
(***************************************************************************)

\* Largest number of rows of a raw batch whose dates come in several formats.
MaxDates == 4
\* Largest number of rows of a raw batch with many dates that do not parse.
MaxDropRows == 7
\* Largest number of characters of the text of a value.
MaxText == 2
\* Largest number of records with an unparsable date appended to a batch.
MaxInvalid == MaxDropRows - 1

LoaderColumns ==
    {"Codigo", "Fecha", "Valor", "Componente", "Categoria", "Indicador",
     "Meta", "Peso"}

LoaderRow(c, f, v, meta, peso) ==
    [COD |-> NaN, Codigo |-> c, Fecha |-> f, Valor |-> v,
     Componente |-> <<"X">>, Categoria |-> <<"Y">>, Indicador |-> <<"N">>,
     Meta |-> meta, Peso |-> peso]

\* the row as a source with the columns cs delivers it: the code under COD
\* when the source names the column so, no cell for a column it lacks
AsDelivered(r, cs) ==
    [c \in DOMAIN r |->
        IF c \notin cs THEN NaN
        ELSE IF c = "COD" THEN r.Codigo
        ELSE r[c]]

Half == Number(1, 2)

\* "01/02/2024", "02/02/2024", "2024-03-05", "not-a-date", "02/13/2024",
\* "01.02.2024" and a missing date
DateEntries ==
    {NaN, <<NotADate>>,
     <<DateText("/", FALSE, 1, 2, 2024)>>, <<DateText("/", FALSE, 2, 2, 2024)>>,
     <<DateText("-", TRUE, 3, 5, 2024)>>, <<DateText("/", FALSE, 2, 13, 2024)>>,
     <<DateText(".", FALSE, 1, 2, 2024)>>}

\* a missing date, a text that is no date, and "01.02.2024", a date in the
\* last candidate format
DropEntries == {NaN, <<NotADate>>, <<DateText(".", FALSE, 1, 2, 2024)>>}

DateRowsOf(entries) ==
    {LoaderRow(<<"A">>, f, <<Half>>, <<1>>, <<1>>) : f \in entries}

\* the characters of the texts of a value column
Alphabet == {"1", "5", ",", ".", "x"}

Texts == UNION {[1..n -> Alphabet] : n \in 0..MaxText}

NumberCells == {NaN, <<Half>>, <<Number(3, 2)>>}
TextCells == {NaN} \cup {<<Text(t)>> : t \in Texts}

ValueRowsOf(cells) ==
    {LoaderRow(<<"A">>, <<DateText("/", FALSE, 1, 2, 2024)>>, v, <<1>>, <<1>>) :
        v \in cells}

\* a record that loads, and the records that differ from it in one cell
GoodRow ==
    LoaderRow(<<"A">>, <<DateText("/", FALSE, 1, 2, 2024)>>, <<Half>>, <<2>>, <<2>>)

InvalidDateRow == [GoodRow EXCEPT !.Fecha = <<NotADate>>]

LoadRows ==
    {GoodRow, InvalidDateRow,
     [GoodRow EXCEPT !.Codigo = NaN],
     [GoodRow EXCEPT !.Fecha = NaN],
     [GoodRow EXCEPT !.Valor = NaN],
     [GoodRow EXCEPT !.Fecha = <<DateText(".", FALSE, 1, 2, 2024)>>],
     [GoodRow EXCEPT !.Valor = <<Text(<<"1", ",", "5">>)>>],
     [GoodRow EXCEPT !.Valor = <<Text(<<"x">>)>>],
     [GoodRow EXCEPT !.Peso = NaN],
     [GoodRow EXCEPT !.Meta = NaN]}

LoadColumnSets ==
    {LoaderColumns,
     LoaderColumns \ {"Peso"}, LoaderColumns \ {"Meta"},
     LoaderColumns \ {"Fecha"}, LoaderColumns \ {"Valor"},
     LoaderColumns \ {"Codigo"}, (LoaderColumns \ {"Codigo"}) \cup {"COD"}}

Delivered(cs, rs) == [cols |-> cs, rows |-> [i \in DOMAIN rs |-> AsDelivered(rs[i], cs)]]

\* sources that deliver one fixed batch, or nothing
GoodFrame == Delivered(LoaderColumns, <<GoodRow>>)
HeaderOnly == [cols |-> LoaderColumns, rows |-> <<>>]
NoSource == [outcome |-> "none", frame |-> EmptyFrame]
Raises == [outcome |-> "raises", frame |-> EmptyFrame]
Delivers(frame) == [outcome |-> "frame", frame |-> frame]

\* the stored records of the CSV file an editor updates
StoredRows ==
    {LoaderRow(<<c>>, f, <<Half>>, <<1>>, <<1>>) :
        c \in {"A", "B"},
        f \in {NaN, <<DateText("/", FALSE, 1, 2, 2024)>>,
               <<DateText("/", FALSE, 13, 2, 2024)>>,
               <<DateText("-", TRUE, 3, 5, 2024)>>}}

Requests ==
    [codigo : {"A", "B"},
     fecha : {Timestamp(2024, 2, 1), Timestamp(2024, 1, 2),
              Timestamp(2024, 2, 13), Timestamp(2024, 3, 5)},
     nuevo_valor : {<<Number(3, 2)>>}]

NoRequest == [codigo |-> "", fecha |-> 0, nuevo_valor |-> NaN]

\* the loader and the editor before they are used
InitIdleLoader ==
    /\ mensajes = {}
    /\ returned = None
    /\ self_df = None
    /\ csv_read = FALSE
    /\ request = NoRequest
    /\ updated = FALSE
    /\ rewritten = FALSE

InitNoSources ==
    /\ use_google_sheets = FALSE
    /\ sheets = NoSource
    /\ csv = Raises

InitLoader ==
    /\ raw = EmptyFrame
    /\ pandas2 = FALSE
    /\ InitNoSources
    /\ InitIdleLoader

InitRest ==
    /\ pc = "start"
    /\ df_latest = EmptyFrame
    /\ same_object = FALSE
    /\ df_latest2 = EmptyFrame
    /\ df_filtrado = EmptyFrame
    /\ path = "none"
    /\ puntajes_componente = <<>>
    /\ puntajes_categoria = <<>>
    /\ puntaje_general = Zero
    /\ again = NoOutputs
    /\ faults = NoFaults
    /\ group_column = "none"
    /\ result = EmptyFrame
    /\ normalizado = NaN
    /\ renormalizado = NaN

InitResolve ==
    /\ IsBatch(ResolveRows)
    /\ valor = NaN
    /\ InitRest
    /\ InitLoader

InitScore ==
    /\ IsBatch(ScoreRows)
    /\ valor = NaN
    /\ InitRest
    /\ InitLoader

InitGroup ==
    /\ \E cs \in GroupColumnSets : \E n \in 0..MaxRows :
          \E rs \in [1..n -> {Project(r, cs) : r \in GroupRows}] :
              df = [cols |-> cs, rows |-> rs]
    /\ valor = NaN
    /\ InitRest
    /\ InitLoader

InitFault ==
    /\ \E n \in 0..MaxRows : \E rs \in [1..n -> FaultRows] :
          df = [cols |-> AllColumns, rows |-> rs]
    /\ valor = NaN
    /\ InitRest
    /\ InitLoader

InitScenario ==
    /\ df \in ScenarioBatches
    /\ valor = NaN
    /\ InitRest
    /\ InitLoader

InitClip ==
    /\ df = EmptyFrame
    /\ valor \in ClipInputs
    /\ InitRest
    /\ InitLoader

\* df_latest = DataProcessor._get_latest_values_by_indicator(df)
GetLatest ==
    /\ pc = "start"
    /\ LET r == get_latest_values_by_indicator(df)
       IN /\ df_latest' = r.frame
          /\ same_object' = r.same
    /\ pc' = "resolved"
    /\ UNCHANGED <<df, df_latest2, score_vars, group_vars, clip_vars, loader_vars>>

\* DataProcessor._get_latest_values_by_indicator(df_latest)
GetLatestAgain ==
    /\ pc = "resolved"
    /\ df_latest2' = get_latest_values_by_indicator(df_latest).frame
    /\ pc' = "resolved_twice"
    /\ UNCHANGED <<df, df_latest, same_object, score_vars, group_vars, clip_vars,
                   loader_vars>>

\* puntajes_componente, puntajes_categoria, puntaje_general =
\*     DataProcessor.calculate_scores(df)
CalculateScores ==
    /\ pc = "start"
    /\ LET r == calculate_scores(df)
       IN /\ df' = r.df
          /\ df_filtrado' = r.df_filtrado
          /\ path' = r.path
          /\ puntajes_componente' = r.componente
          /\ puntajes_categoria' = r.categoria
          /\ puntaje_general' = r.general
    /\ pc' = "scored"
    /\ UNCHANGED <<resolver_vars, again, faults, group_vars, clip_vars, loader_vars>>

\* DataProcessor.calculate_scores(df) once more, on the same batch object;
\* df_filtrado and path keep what the first call left
CalculateScoresAgain ==
    /\ pc = "scored"
    /\ LET r == calculate_scores(df)
       IN /\ df' = r.df
          /\ again' = [componente |-> r.componente, categoria |-> r.categoria,
                       general |-> r.general]
    /\ pc' = "scored_twice"
    /\ UNCHANGED <<resolver_vars, df_filtrado, path, puntajes_componente,
                   puntajes_categoria, puntaje_general, faults,
                   group_vars, clip_vars, loader_vars>>

\* DataProcessor.calculate_scores(df) in which any of the three guarded
\* computations may raise
CalculateScoresRaising ==
    /\ pc = "start"
    /\ \E f \in [componente : BOOLEAN, categoria : BOOLEAN, general : BOOLEAN] :
          LET r == calculate_scores_raising(df, f)
          IN /\ faults' = f
             /\ df' = r.df
             /\ df_filtrado' = r.df_filtrado
             /\ path' = r.path
             /\ puntajes_componente' = r.componente
             /\ puntajes_categoria' = r.categoria
             /\ puntaje_general' = r.general
    /\ pc' = "scored"
    /\ UNCHANGED <<resolver_vars, again, group_vars, clip_vars, loader_vars>>

\* DataProcessor._calculate_weighted_average_by_group(df, group_column)
CalculateWeightedAverageByGroup ==
    /\ pc = "start"
    /\ \E gc \in {"Componente", "Categoria"} :
          /\ group_column' = gc
          /\ result' = weighted_average_table(df, gc)
    /\ pc' = "grouped"
    /\ UNCHANGED <<df, resolver_vars, score_vars, clip_vars, loader_vars>>

\* Series.clip(0, 1) on one value
Normalize ==
    /\ pc = "start"
    /\ normalizado' = Clip(valor)
    /\ pc' = "normalized"
    /\ UNCHANGED <<df, resolver_vars, score_vars, group_vars, valor, renormalizado,
                   loader_vars>>

\* Series.clip(0, 1) on the normalized value
NormalizeAgain ==
    /\ pc = "normalized"
    /\ renormalizado' = Clip(normalizado)
    /\ pc' = "renormalized"
    /\ UNCHANGED <<df, resolver_vars, score_vars, group_vars, valor, normalizado,
                   loader_vars>>

NextResolve == GetLatest \/ GetLatestAgain

NextScore == CalculateScores \/ CalculateScoresAgain

NextGroup == CalculateWeightedAverageByGroup

NextFault == CalculateScoresRaising

NextScenario == CalculateScores

NextClip == Normalize \/ NormalizeAgain

\* the resolver called on a batch, and on its own output
SpecResolve == InitResolve /\ [][NextResolve]_vars

\* calculate_scores called on a batch, and once more on the same batch
SpecScore == InitScore /\ [][NextScore]_vars

\* the aggregation called on a batch
SpecGroup == InitGroup /\ [][NextGroup]_vars

\* calculate_scores with exceptions in its guarded computations
SpecFault == InitFault /\ [][NextFault]_vars

\* calculate_scores on the scoring scenario and its variations
SpecScenario == InitScenario /\ [][NextScenario]_vars

\* the normalization of one value
SpecClip == InitClip /\ [][NextClip]_vars

InitEngine ==
    /\ valor = NaN
    /\ InitRest

\* a raw batch whose dates are texts in several formats
InitDates ==
    /\ \E cs \in {LoaderColumns, LoaderColumns \ {"Fecha"}} :
          \E n \in 0..MaxDates : \E rs \in [1..n -> DateRowsOf(DateEntries)] :
              raw = Delivered(cs, rs)
    /\ df = raw
    /\ pandas2 \in BOOLEAN
    /\ InitNoSources
    /\ InitIdleLoader
    /\ InitEngine

\* a raw batch with many dates that do not parse
InitDrop ==
    /\ \E n \in 0..MaxDropRows : \E rs \in [1..n -> DateRowsOf(DropEntries)] :
          raw = Delivered(LoaderColumns, rs)
    /\ df = raw
    /\ pandas2 \in BOOLEAN
    /\ InitNoSources
    /\ InitIdleLoader
    /\ InitEngine

\* a raw batch whose value column is numeric, or holds texts
InitValues ==
    /\ \E cs \in {LoaderColumns, LoaderColumns \ {"Valor"}} :
          \E cells \in {NumberCells, TextCells} :
              \E n \in 0..MaxRows : \E rs \in [1..n -> ValueRowsOf(cells)] :
                  raw = Delivered(cs, rs)
    /\ df = raw
    /\ pandas2 = FALSE
    /\ InitNoSources
    /\ InitIdleLoader
    /\ InitEngine

\* a loader over a Sheets source and a CSV file, one of which delivers a
\* batch of up to MaxRows records followed by no or by MaxInvalid records
\* whose date does not parse; no date of a load is parsed without a format
InitLoad ==
    /\ \E cs \in LoadColumnSets : \E n \in 0..MaxRows :
          \E rs \in [1..n -> LoadRows] :
          \E k \in {0, MaxInvalid} :
              LET frame == Delivered(cs, rs \o [i \in 1..k |-> InvalidDateRow])
              IN \/ /\ use_google_sheets = TRUE
                    /\ sheets = Delivers(frame)
                    /\ csv \in {Raises, Delivers(GoodFrame)}
                 \/ /\ use_google_sheets = TRUE
                    /\ sheets \in {Raises, NoSource, Delivers(HeaderOnly)}
                    /\ csv = Delivers(frame)
                 \/ /\ use_google_sheets = FALSE
                    /\ sheets = NoSource
                    /\ csv \in {Raises, Delivers(frame)}
    /\ raw = EmptyFrame
    /\ df = EmptyFrame
    /\ pandas2 = FALSE
    /\ InitIdleLoader
    /\ InitEngine

\* an editor over a stored CSV file and a request to update one record
InitUpdate ==
    /\ \E cs \in {LoaderColumns, (LoaderColumns \ {"Codigo"}) \cup {"COD"},
                   LoaderColumns \ {"Codigo"}, LoaderColumns \ {"Fecha"}} :
          \E n \in 0..MaxRows : \E rs \in [1..n -> StoredRows] :
              raw = Delivered(cs, rs)
    /\ csv \in {Raises, Delivers(raw)}
    /\ request \in Requests
    /\ df = EmptyFrame
    /\ pandas2 \in BOOLEAN
    /\ use_google_sheets = FALSE
    /\ sheets = NoSource
    /\ mensajes = {}
    /\ returned = None
    /\ self_df = None
    /\ csv_read = FALSE
    /\ updated = FALSE
    /\ rewritten = FALSE
    /\ InitEngine

engine_vars == <<resolver_vars, score_vars, group_vars, clip_vars>>

\* DataLoader._process_dates(df)
ProcessDates ==
    /\ pc = "start"
    /\ \E r \in {process_dates(df, pandas2)} :
          /\ df' = r.df
          /\ mensajes' = r.mensajes
    /\ pc' = "dates_processed"
    /\ UNCHANGED <<engine_vars, raw, pandas2, use_google_sheets, sheets, csv,
                   returned, self_df, csv_read, request, updated, rewritten>>

\* DataLoader._process_values(df)
ProcessValues ==
    /\ pc = "start"
    /\ \E r \in {process_values(df)} :
          /\ df' = r.df
          /\ mensajes' = r.mensajes
    /\ pc' = "values_processed"
    /\ UNCHANGED <<engine_vars, raw, pandas2, use_google_sheets, sheets, csv,
                   returned, self_df, csv_read, request, updated, rewritten>>

\* DataLoader(use_google_sheets).load_data()
LoadData ==
    /\ pc = "start"
    /\ \E r \in {load_data(use_google_sheets, sheets, csv, pandas2)} :
          /\ returned' = r.returned
          /\ self_df' = r.self_df
          /\ csv_read' = r.csv_read
          /\ mensajes' = r.mensajes
    /\ pc' = "loaded"
    /\ UNCHANGED <<engine_vars, df, raw, pandas2, use_google_sheets, sheets,
                   csv, request, updated, rewritten>>

\* DataEditor._update_record_csv(df, codigo, fecha, nuevo_valor, csv_path)
UpdateRecordCsv ==
    /\ pc = "start"
    /\ \E r \in {update_record_csv(csv, request.codigo, request.fecha,
                                    request.nuevo_valor, pandas2)} :
          /\ updated' = r.returned
          /\ csv' = r.csv
          /\ rewritten' = r.rewritten
    /\ pc' = "updated"
    /\ UNCHANGED <<engine_vars, df, raw, pandas2, use_google_sheets, sheets,
                   mensajes, returned, self_df, csv_read, request>>

NextDates == ProcessDates

NextDrop == ProcessDates

NextValues == ProcessValues

NextLoad == LoadData

NextUpdate == UpdateRecordCsv

\* _process_dates on a batch with dates in several formats
SpecDates == InitDates /\ [][NextDates]_vars

\* _process_dates on a batch with many dates that do not parse
SpecDrop == InitDrop /\ [][NextDrop]_vars

\* _process_values on a batch
SpecValues == InitValues /\ [][NextValues]_vars

\* load_data over a Sheets source and a CSV file
SpecLoad == InitLoad /\ [][NextLoad]_vars

\* _update_record_csv on a stored file
SpecUpdate == InitUpdate /\ [][NextUpdate]_vars

(***************************************************************************)
(* Properties                                                              *)
(***************************************************************************)

Codes == {"A", "B"}

\* indices of the usable rows of code c in a frame
ValidIdx(frame, c) ==
    {i \in DOMAIN frame.rows :
        /\ frame.rows[i].Codigo = <<c>>
        /\ notna(frame.rows[i].Fecha)
        /\ notna(frame.rows[i].Valor)}

\* indices of the snapshot rows of code c
LatestIdx(c) == {j \in DOMAIN df_latest.rows : df_latest.rows[j].Codigo = <<c>>}

MaxFecha(frame, c) == Max({val(frame.rows[i].Fecha) : i \in ValidIdx(frame, c)})

\* C1: for every code with at least one usable row, the resolver's output
\* has exactly one row of that code, and its date is the latest date among
\* the code's usable rows.
C1_OneLatestRowPerCode ==
    pc = "resolved" =>
        \A c \in Codes :
            ValidIdx(df, c) # {} =>
                /\ Cardinality(LatestIdx(c)) = 1
                /\ \A j \in LatestIdx(c) :
                       df_latest.rows[j].Fecha = <<MaxFecha(df, c)>>

\* a code whose latest usable row comes before an older one in the batch
C1_Witness ==
    /\ pc = "resolved"
    /\ \E c \in Codes : \E i, k \in ValidIdx(df, c) :
          /\ i < k
          /\ val(df.rows[i].Fecha) > val(df.rows[k].Fecha)
          /\ \E j \in LatestIdx(c) : df_latest.rows[j].Fecha = df.rows[i].Fecha

\* C2 (as claimed): every snapshot row is, in every column, one single input
\* row: the usable row of its code at the maximal (code, date) position.
C2_SnapshotRowIsOneInputRow ==
    (pc = "resolved" /\ ~same_object) =>
        \A j \in DOMAIN df_latest.rows :
            \E i \in DOMAIN df.rows :
                /\ df.rows[i] = df_latest.rows[j]
                /\ i \in ValidIdx(df, val(df.rows[i].Codigo))
                /\ \A k \in ValidIdx(df, val(df.rows[i].Codigo)) :
                      \/ val(df.rows[k].Fecha) < val(df.rows[i].Fecha)
                      \/ df.rows[k].Fecha = df.rows[i].Fecha /\ k <= i

\* usable rows of code c that carry the code's latest date
TiedIdx(c) ==
    {i \in ValidIdx(df, c) : val(df.rows[i].Fecha) = MaxFecha(df, c)}

\* C8: when several usable rows of a code share its latest date, the
\* snapshot row of the code carries the value of the one that is last in
\* the input order.
C8_LastWinsOnTies ==
    pc = "resolved" =>
        \A c \in Codes :
            (ValidIdx(df, c) # {} /\ Cardinality(TiedIdx(c)) >= 2) =>
                \A j \in LatestIdx(c) :
                    df_latest.rows[j].Valor = df.rows[Max(TiedIdx(c))].Valor

\* two rows tie on the latest date with different values
C8_Witness ==
    /\ pc = "resolved"
    /\ \E c \in Codes : \E i, k \in TiedIdx(c) :
          /\ i < k
          /\ df.rows[i].Valor # df.rows[k].Valor
          /\ \E j \in LatestIdx(c) : df_latest.rows[j].Valor = df.rows[k].Valor

NoUsableRow(frame) ==
    \A i \in DOMAIN frame.rows :
        isna(frame.rows[i].Codigo) \/ isna(frame.rows[i].Fecha)
            \/ isna(frame.rows[i].Valor)

\* C9: when the batch is not empty and none of its rows has code, date and
\* value, the resolver returns the input batch itself, invalid rows included.
C9_FallbackReturnsInput ==
    (pc = "resolved" /\ df.rows # <<>> /\ NoUsableRow(df)) =>
        (df_latest = df /\ same_object)

\* a batch with all columns, two rows, none usable
C9_Witness ==
    /\ pc = "resolved"
    /\ df.cols = AllColumns
    /\ Len(df.rows) >= 2
    /\ NoUsableRow(df)
    /\ df_latest = df

\* C10: resolving the resolver's output once more gives the same rows and
\* values.
C10_ResolverIdempotent ==
    pc = "resolved_twice" => df_latest2 = df_latest

\* a batch the first resolution really reduced
C10_Witness ==
    /\ pc = "resolved_twice"
    /\ Len(df_latest.rows) >= 1
    /\ Len(df_latest.rows) < Len(df.rows)
    /\ df_latest2 = df_latest

RECURSIVE SetSum(_, _)
SetSum(f, S) ==
    IF S = {} THEN 0
    ELSE LET x == CHOOSE y \in S : TRUE IN f[x] + SetSum(f, S \ {x})

\* the snapshot rows of S in which value and weight are both present
Pairs(S) ==
    {i \in S : /\ notna(df_filtrado.rows[i].Valor_Normalizado)
               /\ notna(df_filtrado.rows[i].Peso)}

VN(i) == val(df_filtrado.rows[i].Valor_Normalizado)
W(i) == val(df_filtrado.rows[i].Peso)

\* score is the number n / (d * ValueScale)
Equals(score, n, d) == score.num * d * ValueScale = score.den * n

\* the aggregation rule over the snapshot rows S
FollowsRule(score, S) ==
    LET P == Pairs(S)
        wsum == SetSum([i \in P |-> W(i)], P)
    IN /\ wsum > 0 => Equals(score, SetSum([i \in P |-> VN(i) * W(i)], P), wsum)
       /\ (wsum <= 0 /\ P # {}) =>
              Equals(score, SetSum([i \in P |-> VN(i)], P), Cardinality(P))
       /\ P = {} => score = Zero

IsUnweightedMean(score, S) ==
    Equals(score, SetSum([i \in S |-> VN(i)], S), Cardinality(S))

GroupIdx(col, k) ==
    {i \in DOMAIN df_filtrado.rows : df_filtrado.rows[i][col] = <<k>>}

TableFollowsRule(table, col) ==
    \A n \in DOMAIN table :
        LET S == GroupIdx(col, table[n].key)
        IN /\ FollowsRule(table[n].Puntaje_Ponderado, S)
           /\ (S = Pairs(S) /\ \A i \in S : W(i) = 1) =>
                  IsUnweightedMean(table[n].Puntaje_Ponderado, S)

\* C3 (as claimed): no record that lacks code, date or value contributes to
\* a score: in a batch that has every column, each snapshot row whose value
\* enters the scores has a code and a date.
C3_OnlyUsableRecordsContribute ==
    (path = "scored" /\ AllColumns \subseteq df.cols) =>
        \A i \in DOMAIN df_filtrado.rows :
            notna(df_filtrado.rows[i].Valor_Normalizado) =>
                /\ notna(df_filtrado.rows[i].Codigo)
                /\ notna(df_filtrado.rows[i].Fecha)

\* C4: each group score is the weighted mean of the pairs with value and
\* weight present when their weight sum is positive, the plain mean of their
\* values when it is not, 0 when no pair survives; with all weights 1 and
\* nothing missing it is the plain mean.
C4_GroupScoreRule ==
    path = "scored" =>
        /\ TableFollowsRule(puntajes_componente, "Componente")
        /\ TableFollowsRule(puntajes_categoria, "Categoria")

\* a group of two pairs with different values and different positive weights
C4_Witness ==
    /\ path = "scored"
    /\ \E n \in DOMAIN puntajes_componente :
          LET S == GroupIdx("Componente", puntajes_componente[n].key)
          IN /\ \E i, k \in Pairs(S) :
                   W(i) > 0 /\ W(k) > W(i) /\ VN(i) # VN(k)
             /\ ~IsUnweightedMean(puntajes_componente[n].Puntaje_Ponderado, S)
             /\ FollowsRule(puntajes_componente[n].Puntaje_Ponderado, S)

\* every row of the snapshot has code, date and value: the snapshot is the
\* resolver's reduction, not its fallback
ProperSnapshot ==
    \A i \in DOMAIN df_filtrado.rows :
        /\ notna(df_filtrado.rows[i].Codigo)
        /\ notna(df_filtrado.rows[i].Fecha)
        /\ notna(df_filtrado.rows[i].Valor)

\* C5 (as claimed): the overall score is the group rule applied to the whole
\* snapshot as one group, also when weights are missing or sum to 0.
C5_OverallFollowsGroupRule ==
    (path = "scored" /\ ProperSnapshot) =>
        FollowsRule(puntaje_general, DOMAIN df_filtrado.rows)

\* C6 (as claimed): the overall score lies in [0,1] whatever the weights.
C6_OverallInUnitInterval ==
    pc = "scored" =>
        /\ 0 <= puntaje_general.num
        /\ puntaje_general.num <= puntaje_general.den

\* C7 (as claimed): no call modifies the batch it is given.
C7_InputBatchNeverModified == [][df' = df]_vars

\* the aggregation rule for a score over the rows S, whose values and
\* weights are the cells vs[i] and ws[i]
RuleOnCells(score, S, vs, ws) ==
    LET P == {i \in S : notna(vs[i]) /\ notna(ws[i])}
        wsum == SetSum([i \in P |-> val(ws[i])], P)
    IN /\ wsum > 0 =>
              Equals(score, SetSum([i \in P |-> val(vs[i]) * val(ws[i])], P), wsum)
       /\ (wsum <= 0 /\ P # {}) =>
              Equals(score, SetSum([i \in P |-> val(vs[i])], P), Cardinality(P))
       /\ P = {} => score = Zero

\* the distinct values of the grouping column in the batch
DistinctKeys ==
    {val(df.rows[i][group_column]) :
        i \in {j \in DOMAIN df.rows : notna(df.rows[j][group_column])}}

KeyIdx(k) == {i \in DOMAIN df.rows : df.rows[i][group_column] = <<k>>}

OneRowPerGroup ==
    /\ {result.rows[n].key : n \in DOMAIN result.rows} = DistinctKeys
    /\ Len(result.rows) = Cardinality(DistinctKeys)

\* C11 (as claimed): on a non-empty batch with the value, weight and grouping
\* columns, the aggregation returns one row per distinct group value whose
\* score is the rule over the values it clips itself, whether or not a
\* normalized-value column is there.
C11_AggregatorClipsItself ==
    (/\ pc = "grouped"
     /\ df.rows # <<>>
     /\ {"Valor", "Peso", group_column} \subseteq df.cols) =>
        /\ OneRowPerGroup
        /\ \A n \in DOMAIN result.rows :
               LET S == KeyIdx(result.rows[n].key)
               IN RuleOnCells(result.rows[n].Puntaje_Ponderado, S,
                              [i \in S |-> IF val(df.rows[i].Valor) > ValueScale
                                           THEN <<ValueScale>>
                                           ELSE IF val(df.rows[i].Valor) < 0
                                           THEN <<0>>
                                           ELSE df.rows[i].Valor],
                              [i \in S |-> df.rows[i].Peso])

\* C11 (amended): on a non-empty batch with the grouping column, the
\* aggregation returns one row per distinct non-missing group value, scored
\* by the rule over the Valor_Normalizado column, when the columns
\* Valor_Normalizado and Peso are present, and no row when one is absent.
C11_AggregatorNeedsNormalizedColumn ==
    (pc = "grouped" /\ df.rows # <<>> /\ group_column \in df.cols) =>
        IF {"Valor_Normalizado", "Peso"} \subseteq df.cols
        THEN /\ OneRowPerGroup
             /\ \A n \in DOMAIN result.rows :
                    LET S == KeyIdx(result.rows[n].key)
                    IN RuleOnCells(result.rows[n].Puntaje_Ponderado, S,
                                   [i \in S |-> df.rows[i].Valor_Normalizado],
                                   [i \in S |-> df.rows[i].Peso])
        ELSE result.rows = <<>>

\* a batch with values, weights and two groups but no normalized column
C11_Witness ==
    /\ pc = "grouped"
    /\ df.cols = AllColumns
    /\ Cardinality(DistinctKeys) = 2
    /\ \A i \in DOMAIN df.rows : notna(df.rows[i].Peso)
    /\ result.rows = <<>>

IsDegraded ==
    /\ puntajes_componente = <<>>
    /\ puntajes_categoria = <<>>
    /\ puntaje_general = Zero

\* C12 (as claimed): a non-empty batch that lacks one of the columns code,
\* date, value, component, category gets the degraded result.
C12_MissingColumnDegrades ==
    (/\ pc = "scored"
     /\ df.rows # <<>>
     /\ \E c \in {"Codigo", "Fecha", "Valor", "Componente", "Categoria"} :
           c \notin df.cols) =>
        IsDegraded

\* C13: a snapshot that lacks one of the columns value, weight, component,
\* category gets the degraded result.
C13_MissingScoreColumnDegrades ==
    (/\ pc = "scored"
     /\ df.rows # <<>>
     /\ \E c \in {"Valor", "Peso", "Componente", "Categoria"} :
           c \notin df_filtrado.cols) =>
        IsDegraded

\* a usable row in a batch without the component column
C13_Witness ==
    /\ pc = "scored"
    /\ "Componente" \notin df_filtrado.cols
    /\ \E i \in DOMAIN df_filtrado.rows :
          /\ notna(df_filtrado.rows[i].Valor)
          /\ notna(df_filtrado.rows[i].Peso)
          /\ notna(df_filtrado.rows[i].Categoria)
    /\ path = "missing_columns"
    /\ IsDegraded

\* C14: on a batch with zero rows calculate_scores returns two tables with
\* zero rows and the overall score 0.
C14_EmptyBatchDegrades ==
    (pc = "scored" /\ df.rows = <<>>) => IsDegraded

\* the empty batch with every column
C14_Witness ==
    /\ pc = "scored"
    /\ df = [cols |-> AllColumns, rows |-> <<>>]
    /\ path = "empty"
    /\ IsDegraded

\* C15: when every normalized value of the snapshot is missing,
\* calculate_scores returns the degraded result.
C15_AllValuesMissingDegrades ==
    (/\ pc = "scored"
     /\ "Valor_Normalizado" \in df_filtrado.cols
     /\ \A i \in DOMAIN df_filtrado.rows :
           isna(df_filtrado.rows[i].Valor_Normalizado)) =>
        IsDegraded

\* two rows with weights, components and categories but no value
C15_Witness ==
    /\ pc = "scored"
    /\ "Valor_Normalizado" \in df_filtrado.cols
    /\ Len(df_filtrado.rows) >= 2
    /\ \A i \in DOMAIN df_filtrado.rows :
          /\ isna(df_filtrado.rows[i].Valor_Normalizado)
          /\ notna(df_filtrado.rows[i].Peso)
          /\ notna(df_filtrado.rows[i].Componente)
    /\ path = "all_nan"
    /\ IsDegraded

\* C16: the three outputs fail independently: an output whose computation
\* raised is the empty table (or 0), and each of the others is still what
\* the snapshot gives.
C16_OutputsFailIndependently ==
    path = "scored" =>
        /\ IF faults.componente THEN puntajes_componente = <<>>
           ELSE /\ puntajes_componente # <<>>
                /\ TableFollowsRule(puntajes_componente, "Componente")
        /\ IF faults.categoria THEN puntajes_categoria = <<>>
           ELSE /\ puntajes_categoria # <<>>
                /\ TableFollowsRule(puntajes_categoria, "Categoria")
        /\ IF faults.general THEN puntaje_general = Zero
           ELSE /\ puntaje_general # Zero
                /\ FollowsRule(puntaje_general, DOMAIN df_filtrado.rows)

\* only the component aggregation raised
C16_Witness ==
    /\ path = "scored"
    /\ faults = [componente |-> TRUE, categoria |-> FALSE, general |-> FALSE]
    /\ puntajes_componente = <<>>
    /\ Len(puntajes_categoria) = 2
    /\ puntaje_general # Zero

\* C17: on an empty batch, or when the grouping column is not a column of
\* the batch, the aggregation returns a table with zero rows and the two
\* columns (group column, score).
C17_EmptyShapedTable ==
    (pc = "grouped" /\ (df.rows = <<>> \/ group_column \notin df.cols)) =>
        /\ result.rows = <<>>
        /\ result.cols = {group_column, "Puntaje_Ponderado"}

\* rows with values and weights, grouped by a column that is absent
C17_Witness ==
    /\ pc = "grouped"
    /\ group_column \notin df.cols
    /\ Len(df.rows) >= 2
    /\ {"Valor_Normalizado", "Peso"} \subseteq df.cols
    /\ result = [cols |-> {group_column, "Puntaje_Ponderado"}, rows |-> <<>>]

\* C18: a second calculate_scores on the same batch object returns the same
\* two tables and the same overall score as the first.
C18_ScoresRepeatable ==
    pc = "scored_twice" =>
        again = [componente |-> puntajes_componente,
                 categoria |-> puntajes_categoria,
                 general |-> puntaje_general]

\* the first call took the fallback and left its column in the batch
C18_Witness ==
    /\ pc = "scored_twice"
    /\ path = "scored"
    /\ "Valor_Normalizado" \in df.cols
    /\ puntaje_general # Zero
    /\ again.general = puntaje_general
    /\ again.componente = puntajes_componente

ParsedUnder(k) ==
    {i \in DOMAIN raw.rows :
        /\ notna(raw.rows[i].Fecha)
        /\ notna(strptime(val(raw.rows[i].Fecha), date_formats[k]))}

\* the formats that parse at least half of the raw date column
FormatsReachingHalf ==
    {k \in DOMAIN date_formats :
        raw.rows # <<>> /\ 2 * Cardinality(ParsedUnder(k)) >= Len(raw.rows)}

\* the column as _process_dates leaves it when these are the parsed dates
AfterDrop(fechas) ==
    IF Cardinality({i \in DOMAIN fechas : isna(fechas[i])}) > 5
    THEN SelectSeq(fechas, notna)
    ELSE fechas

\* C21 (as claimed): when no candidate format parses at least half of the
\* date column, the dates of the processed batch are those of the permissive
\* day-first parse of the original column.
C21_PermissiveFallback ==
    (/\ pc = "dates_processed"
     /\ "Fecha" \in raw.cols
     /\ raw.rows # <<>>
     /\ FormatsReachingHalf = {}) =>
        Column(df, "Fecha") =
            AfterDrop(to_datetime(Column(raw, "Fecha"), TRUE, pandas2))

\* the date column "01/02/2024", "02/02/2024", "2024-03-05", "not-a-date"
ScenarioDates ==
    <<<<DateText("/", FALSE, 1, 2, 2024)>>, <<DateText("/", FALSE, 2, 2, 2024)>>,
      <<DateText("-", TRUE, 3, 5, 2024)>>, <<NotADate>>>>

\* C22: when some candidate format parses at least half of the date column,
\* the processed dates are those of the first such format in the fixed
\* order, the entries it does not parse being missing; on the scenario
\* column that is %d/%m/%Y, with 1 and 2 February 2024 and two missing dates.
C22_FirstFormatReachingHalf ==
    (pc = "dates_processed" /\ "Fecha" \in raw.cols) =>
        /\ FormatsReachingHalf # {} =>
               LET k == Min(FormatsReachingHalf)
               IN Column(df, "Fecha") =
                      AfterDrop([i \in DOMAIN raw.rows |->
                          IF i \in ParsedUnder(k)
                          THEN strptime(val(raw.rows[i].Fecha), date_formats[k])
                          ELSE NaN])
        /\ Column(raw, "Fecha") = ScenarioDates =>
               Column(df, "Fecha") = <<<<20240201>>, <<20240202>>, NaN, NaN>>

\* the scenario column processed: exactly half of it parses as %d/%m/%Y
C22_Witness ==
    /\ pc = "dates_processed"
    /\ Column(raw, "Fecha") = ScenarioDates
    /\ Min(FormatsReachingHalf) = 1
    /\ 2 * Cardinality(ParsedUnder(1)) = Len(raw.rows)
    /\ isna(df.rows[3].Fecha)

MissingDates(frame) == {i \in DOMAIN frame.rows : isna(frame.rows[i].Fecha)}

\* C23: _process_dates either keeps every row, and then at most 5 of them
\* have a missing date, or removes more than 5 rows and leaves no row with a
\* missing date.
C23_DropAboveFive ==
    (pc = "dates_processed" /\ "Fecha" \in raw.cols) =>
        /\ Len(df.rows) <= Len(raw.rows)
        /\ Len(df.rows) = Len(raw.rows) => Cardinality(MissingDates(df)) <= 5
        /\ Len(df.rows) < Len(raw.rows) =>
               /\ MissingDates(df) = {}
               /\ Len(raw.rows) - Len(df.rows) > 5
               /\ Len(raw.rows) - Len(df.rows) >= Cardinality(MissingDates(raw))

\* six rows without a date removed, the row with a date kept
C23_Witness ==
    /\ pc = "dates_processed"
    /\ Len(raw.rows) = 7
    /\ Len(df.rows) = 1
    /\ notna(df.rows[1].Fecha)

\* five rows without a date: all rows kept
C23_KeptAtFive ==
    /\ pc = "dates_processed"
    /\ Len(raw.rows) = 7
    /\ Len(df.rows) = 7
    /\ Cardinality(MissingDates(df)) = 5

IsText(cell) == notna(cell) /\ val(cell).kind = "str"

\* the text is digits around at most one comma or point, with a digit
IsNumberText(chars) ==
    /\ \A i \in DOMAIN chars : IsDigit(chars[i]) \/ chars[i] \in {",", "."}
    /\ Cardinality({i \in DOMAIN chars : chars[i] \in {",", "."}}) <= 1
    /\ \E i \in DOMAIN chars : IsDigit(chars[i])

\* the number written by the text, whose comma or point is the decimal mark
Writes(chars, number) ==
    LET marks == {i \in DOMAIN chars : chars[i] \in {",", "."}}
        decimals == IF marks = {} THEN 0 ELSE Len(chars) - Max(marks)
    IN number.num * Pow10(decimals) =
           IntOf(SelectSeq(chars, IsDigit)) * number.den

\* C24: _process_values leaves a numeric value column as it is; in a column
\* with texts every text that writes a number, a comma read as the decimal
\* point, becomes that number and every other text becomes missing, each
\* cell on its own, and nothing is reported as an error.
C24_ValuesCoercedPerCell ==
    (pc = "values_processed" /\ "Valor" \in raw.cols) =>
        /\ mensajes = {}
        /\ Len(df.rows) = Len(raw.rows)
        /\ (\A i \in DOMAIN raw.rows : ~IsText(raw.rows[i].Valor)) => df = raw
        /\ (\E i \in DOMAIN raw.rows : IsText(raw.rows[i].Valor)) =>
               \A i \in DOMAIN raw.rows :
                   LET cell == raw.rows[i].Valor
                       out == df.rows[i].Valor
                   IN /\ df.rows[i] = [raw.rows[i] EXCEPT !.Valor = out]
                      /\ isna(cell) => isna(out)
                      /\ IsText(cell) =>
                             /\ notna(out) <=> IsNumberText(val(cell).text)
                             /\ notna(out) =>
                                    /\ val(out).kind = "float"
                                    /\ Writes(val(cell).text, val(out).number)
                      /\ cell = <<Text(<<",", "5">>)>> => out = <<Number(1, 2)>>
                      /\ cell = <<Text(<<"1", "5">>)>> => out = <<Number(15, 1)>>

\* a text that writes a number with a comma next to one that writes none
C24_Witness ==
    /\ pc = "values_processed"
    /\ Len(raw.rows) = 2
    /\ raw.rows[1].Valor = <<Text(<<"x">>)>>
    /\ raw.rows[2].Valor = <<Text(<<"1", ",">>)>>
    /\ isna(df.rows[1].Valor)
    /\ df.rows[2].Valor = <<Number(1, 1)>>

\* the raw batch of the source whose batch load_data processed last
Used == IF csv_read THEN csv.frame ELSE sheets.frame

\* C25 (as claimed): every record of a loaded batch has a weight and a
\* target, which are 1.0 and the configured default where the source has no
\* such column.
C25_EveryRecordHasWeightAndTarget ==
    (pc = "loaded" /\ returned # None) =>
        \A i \in DOMAIN returned[1].rows :
            LET r == returned[1].rows[i]
            IN /\ notna(r.Peso)
               /\ notna(r.Meta)
               /\ "Peso" \notin Used.cols => r.Peso = <<1>>
               /\ "Meta" \notin Used.cols => r.Meta = <<DEFAULT_META>>

\* the source delivers a batch with rows that lacks a required column after
\* the renaming
Lacks(source) ==
    /\ source.outcome = "frame"
    /\ ~empty(source.frame)
    /\ ~(required_columns \subseteq rename_columns(source.frame, 1).cols)

\* the batch of the source, unchanged or processed as far as it goes
Partial(source) ==
    {<<source.frame>>, <<process_dataframe(source.frame, pandas2).df>>}

\* C26 (as claimed): when the batch of the CSV file, or of the Sheets source,
\* lacks a required column after the renaming, a diagnostic is reported and
\* the unchanged or partially processed batch is returned to the caller.
C26_ReturnsPartialBatch ==
    pc = "loaded" =>
        /\ (csv_read /\ Lacks(csv)) =>
               "Faltan columnas" \in mensajes /\ returned \in Partial(csv)
        /\ (use_google_sheets /\ Lacks(sheets) /\ csv = Raises) =>
               "Faltan columnas" \in mensajes /\ returned \in Partial(sheets)

\* C26 (amended): when the batch of a source lacks a required column after
\* the renaming, a diagnostic is reported and that batch is not returned:
\* the CSV path returns None and leaves the partially processed batch in
\* self.df, the Sheets path goes on to the CSV file.
C26_ReportsAndReturnsNone ==
    pc = "loaded" =>
        /\ (csv_read /\ Lacks(csv)) =>
               /\ "Faltan columnas" \in mensajes
               /\ returned = None
               /\ self_df = <<process_dataframe(csv.frame, pandas2).df>>
        /\ (use_google_sheets /\ Lacks(sheets)) =>
               /\ "Faltan columnas" \in mensajes
               /\ csv_read
               /\ returned = None \/ required_columns \subseteq returned[1].cols
               /\ csv = Raises => returned = None

\* a CSV file with records and without a required column was read
C26_Witness ==
    /\ pc = "loaded"
    /\ ~use_google_sheets
    /\ csv_read
    /\ Lacks(csv)
    /\ "Valor" \notin csv.frame.cols
    /\ returned = None
    /\ self_df # None

\* C27 (as claimed): every snapshot row that has a normalized value and a
\* weight, and so counts in the overall score, has its component in exactly
\* one row of the component table and its category in exactly one row of the
\* category table.
C27_OverallRowsAreGrouped ==
    (pc = "scored" /\ path = "scored") =>
        \A i \in DOMAIN df_filtrado.rows :
            LET r == df_filtrado.rows[i]
            IN (notna(r.Valor_Normalizado) /\ notna(r.Peso)) =>
                   /\ notna(r.Componente)
                   /\ Cardinality({n \in DOMAIN puntajes_componente :
                          puntajes_componente[n].key = val(r.Componente)}) = 1
                   /\ notna(r.Categoria)
                   /\ Cardinality({n \in DOMAIN puntajes_categoria :
                          puntajes_categoria[n].key = val(r.Categoria)}) = 1

\* what a source yields once its batch is processed and verified
Yields(source) ==
    IF source.outcome = "frame" /\ source.frame.rows # <<>>
    THEN process_and_verify(source.frame, pandas2).returned
    ELSE None

SheetsYield == IF use_google_sheets THEN Yields(sheets) ELSE None

\* C28: load_data returns the Sheets batch without reading the CSV file
\* when Sheets is enabled and its batch loads and verifies; it reads the CSV
\* file exactly when that is not so, and then returns the CSV batch if it
\* loads and verifies; it returns None exactly when neither does.
C28_SourceOrder ==
    pc = "loaded" =>
        /\ SheetsYield # None => returned = SheetsYield /\ ~csv_read
        /\ csv_read <=> SheetsYield = None
        /\ SheetsYield = None => returned = Yields(csv)
        /\ returned = None <=> (SheetsYield = None /\ Yields(csv) = None)

\* both sources hold a batch that loads: the Sheets batch is returned and
\* the CSV file is not read
C28_Witness ==
    /\ pc = "loaded"
    /\ use_google_sheets
    /\ csv = Delivers(GoodFrame)
    /\ Len(sheets.frame.rows) = 2
    /\ returned # None
    /\ Len(returned[1].rows) = 2
    /\ ~csv_read

\* C29: a batch load_data returns has rows, has the six required columns and
\* has a code, a parsed date and a value in every row.
C29_ReturnedBatchIsClean ==
    (pc = "loaded" /\ returned # None) =>
        /\ returned[1].rows # <<>>
        /\ {"Codigo", "Fecha", "Valor", "Componente", "Categoria", "Indicador"}
               \subseteq returned[1].cols
        /\ \A i \in DOMAIN returned[1].rows :
               LET r == returned[1].rows[i]
               IN /\ notna(r.Codigo)
                  /\ notna(r.Fecha)
                  /\ val(r.Fecha) \in 10000101..99991231
                  /\ notna(r.Valor)
                  /\ val(r.Valor).kind = "float"

\* a CSV file with more than five dates that do not parse, their rows
\* removed, and a value written as a text
C29_Witness ==
    /\ pc = "loaded"
    /\ csv_read
    /\ returned # None
    /\ Cardinality(MissingDates(process_dates(csv.frame, pandas2).df)) = 0
    /\ Len(csv.frame.rows) > Len(returned[1].rows) + 5
    /\ \E i \in DOMAIN csv.frame.rows : IsText(csv.frame.rows[i].Valor)

\* the dates of a stored file as the next load reads them
LoadedDates(frame) == Column(process_dates(frame, pandas2).df, "Fecha")

\* the code of a stored record
StoredCode(r) == IF notna(r.COD) THEN r.COD ELSE r.Codigo

\* the stored records whose code and date are those of the request
Matching ==
    {i \in DOMAIN raw.rows :
        /\ StoredCode(raw.rows[i]) = <<request.codigo>>
        /\ LoadedDates(raw)[i] = <<request.fecha>>}

\* C30 (as claimed): an update of the stored CSV file changes the value of
\* the records that match the request and nothing else: every other cell is
\* the same, every date reads back on the next load as before, and when no
\* record matches False is returned and the file is not written.
C30_UpdateChangesOnlyValue ==
    (pc = "updated" /\ csv.outcome = "frame") =>
        /\ Len(csv.frame.rows) = Len(raw.rows)
        /\ \A i \in DOMAIN raw.rows :
               /\ \A c \in DOMAIN raw.rows[i] \ {"Valor", "Fecha"} :
                      csv.frame.rows[i][c] = raw.rows[i][c]
               /\ i \notin Matching => csv.frame.rows[i].Valor = raw.rows[i].Valor
        /\ LoadedDates(csv.frame) = LoadedDates(raw)
        /\ Matching = {} => ~updated /\ ~rewritten

====
